---------------------------- MODULE Spec2Model ----------------------------
(***************************************************************************)
(* Model of the Spotify proxy (src/server.js): the in-memory token cache   *)
(* with getAppToken, the generic forwarder, and the recommendations        *)
(* handler with its 404/403 fallback pipeline.                             *)
(*                                                                         *)
(* A JavaScript string is a sequence of atoms; an atom is a one-character  *)
(* string or an opaque chunk without commas or white space ("A1", "pop").  *)
(* An optional value (a query parameter, an environment variable, a local  *)
(* not yet assigned) is a set with at most one element: {} is undefined.   *)
(***************************************************************************)
EXTENDS Integers, Sequences, FiniteSets, TLC

VARIABLES
    now,          \* Math.floor(Date.now() / 1000)
    cachedToken,  \* the module-level token cache
    env,          \* process.env: SPOTIFY_CLIENT_ID, SPOTIFY_CLIENT_SECRET
    pc,           \* per handler invocation: where its async function stands
    token,        \* per handler: the local `token`
    reply,        \* per handler: the response object of its last settled fetch
    calls,        \* per handler: the upstream requests it has issued, in order
    response,     \* per handler: what it has sent to its client
    snap,         \* per handler: cache and clock as getAppToken found them
    served,       \* number of forwarded requests started so far
    query,        \* req.query of the recommendations request
    sent,         \* what the client put into the query string, entry by entry
    artistsArr,   \* recommendations handler locals
    tracksArr,
    genresArr,
    limit,
    market,
    stage,        \* which fallback loop is running
    idx,          \* index of the seed whose sub-call is awaited
    collected,
    seen

vars == <<now, cachedToken, env, pc, token, reply, calls, response, snap, served,
          query, sent, artistsArr, tracksArr, genresArr, limit, market, stage, idx,
          collected, seen>>

recoVars == <<query, sent, artistsArr, tracksArr, genresArr, limit, market, stage, idx,
              collected, seen>>

---------------------------------------------------------------------------
(* Bounds of the model *)

MaxTime == 45
TickStep == 15
MaxServed == 3
MaxArtistFields == 6
MaxOtherFields == 2
MaxLimitValue == 120
MaxItems == 2

---------------------------------------------------------------------------
(* Program constants *)

SAFETY_MARGIN == 30
MAX_SEEDS == 5
DEFAULT_LIMIT == 20
MIN_LIMIT == 1
MAX_LIMIT == 100
SEARCH_CAP == 50

NULL == "null"

---------------------------------------------------------------------------
(* JavaScript values *)

Min(a, b) == IF a < b THEN a ELSE b
Max(a, b) == IF a > b THEN a ELSE b

\* the value of a defined optional
Val(o) == CHOOSE v \in o : TRUE

\* !v for an optional string: undefined and "" are falsy
Falsy(o) == o = {} \/ o = {<<>>}

\* truthiness of a token or environment string: null, undefined and "" are falsy
Truthy(s) == s # NULL /\ s # ""

RECURSIVE TrimStart(_)
TrimStart(s) == IF s # <<>> /\ Head(s) = " " THEN TrimStart(Tail(s)) ELSE s

RECURSIVE TrimEnd(_)
TrimEnd(s) ==
    IF s # <<>> /\ s[Len(s)] = " " THEN TrimEnd(SubSeq(s, 1, Len(s) - 1)) ELSE s

\* String.prototype.trim
Trim(s) == TrimEnd(TrimStart(s))

\* String.prototype.split(","): always at least one field
RECURSIVE SplitFrom(_, _, _)
SplitFrom(s, i, cur) ==
    IF i > Len(s) THEN <<cur>>
    ELSE IF s[i] = "," THEN <<cur>> \o SplitFrom(s, i + 1, <<>>)
    ELSE SplitFrom(s, i + 1, Append(cur, s[i]))

Split(s) == SplitFrom(s, 1, <<>>)

\* .map((s) => s.trim())
TrimEach(fields) == [i \in 1..Len(fields) |-> Trim(fields[i])]

\* Boolean(s) for a string
NonEmpty(s) == s # <<>>

\* Array.prototype.slice(0, n) for n >= 0
Slice(s, n) == SubSeq(s, 1, Min(n, Len(s)))

DigitChars == <<"0", "1", "2", "3", "4", "5", "6", "7", "8", "9">>

IsDigit(c) == \E d \in 1..10 : DigitChars[d] = c

DigitVal(c) == (CHOOSE d \in 1..10 : DigitChars[d] = c) - 1

\* value of the longest prefix of decimal digits of s from position i; acc is the
\* value read so far
RECURSIVE DigitsFrom(_, _, _)
DigitsFrom(s, i, acc) ==
    IF i <= Len(s) /\ IsDigit(s[i])
    THEN DigitsFrom(s, i + 1, 10 * acc + DigitVal(s[i]))
    ELSE acc

\* parseInt(s, 10): {} is NaN
ParseInt(s) ==
    LET t == TrimStart(s)
        signed == t # <<>> /\ Head(t) \in {"-", "+"}
        body == IF signed THEN Tail(t) ELSE t
    IN  IF body = <<>> \/ ~IsDigit(Head(body)) THEN {}
        ELSE IF signed /\ Head(t) = "-" THEN {0 - DigitsFrom(body, 1, 0)}
        ELSE {DigitsFrom(body, 1, 0)}

---------------------------------------------------------------------------
(* Request shaping of the recommendations handler *)

\* splitCSV without .filter(Boolean)
splitCSV_KeepBlank(v) ==
    IF Falsy(v) THEN <<>> ELSE TrimEach(Split(Val(v)))

splitCSV(v) ==
    IF Falsy(v) THEN <<>>
    ELSE SelectSeq(TrimEach(Split(Val(v))), NonEmpty)

DefaultGenres == << <<"pop">>, <<"rock">>, <<"hip-hop">> >>

\* the cap applied to each list on its own: `remaining` is never decreased
ResolveSeeds_NoBudget(q) ==
    LET a0 == splitCSV(q.seed_artists)
        t0 == splitCSV(q.seed_tracks)
        g0 == splitCSV(q.seed_genres)
        g1 == IF Len(a0) + Len(t0) + Len(g0) = 0 THEN DefaultGenres ELSE g0
    IN  [artists |-> Slice(a0, MAX_SEEDS), tracks |-> Slice(t0, MAX_SEEDS),
         genres |-> Slice(g1, MAX_SEEDS)]

\* the three seed arrays after the default substitution and the cap of five
ResolveSeeds(q) ==
    LET a0 == splitCSV(q.seed_artists)
        t0 == splitCSV(q.seed_tracks)
        g0 == splitCSV(q.seed_genres)
        g1 == IF Len(a0) + Len(t0) + Len(g0) = 0 THEN DefaultGenres ELSE g0
        a  == Slice(a0, MAX_SEEDS)
        t  == Slice(t0, MAX_SEEDS - Len(a))
        g  == Slice(g1, MAX_SEEDS - Len(a) - Len(t))
    IN  [artists |-> a, tracks |-> t, genres |-> g]

\* the limit without Math.max(..., 1)
ResolveLimit_NoFloor(q) ==
    LET text == IF Falsy(q.limit) THEN <<"2", "0">> ELSE Val(q.limit)
        n == ParseInt(text)
        m == IF n = {} \/ n = {0} THEN DEFAULT_LIMIT ELSE Val(n)
    IN  Min(m, MAX_LIMIT)

ResolveLimit(q) ==
    LET text == IF Falsy(q.limit) THEN <<"2", "0">> ELSE Val(q.limit)
        n == ParseInt(text)
        m == IF n = {} \/ n = {0} THEN DEFAULT_LIMIT ELSE Val(n)
    IN  Min(Max(m, MIN_LIMIT), MAX_LIMIT)

ResolveMarket(q) == IF Falsy(q.market) THEN <<"US">> ELSE Val(q.market)

---------------------------------------------------------------------------
(* Handler invocations *)

Reco == "reco"
Forwarders == {"fwd1", "fwd2"}
Procs == Forwarders \cup {Reco}

\* r.ok of a settled fetch
Ok(r) == r.status >= 200 /\ r.status <= 299

\* what fetch() settles with: net = FALSE is a rejected fetch; json tells whether
\* the body parses as JSON; the remaining fields are the parsed body
NetworkError ==
    [net |-> FALSE, status |-> 0, json |-> FALSE, access_token |-> NULL,
     expires_in |-> 0, text |-> "", items |-> <<>>]

HttpReply(st, js, txt) ==
    [net |-> TRUE, status |-> st, json |-> js, access_token |-> NULL,
     expires_in |-> 0, text |-> txt, items |-> <<>>]

\* {access_token, expires_in} bodies of the identity endpoint
IdentityBodies ==
    {[access_token |-> "tokA", expires_in |-> 60],
     [access_token |-> "tokB", expires_in |-> 20]}

IdentityReplies ==
    {NetworkError, HttpReply(400, TRUE, "invalid_client"), HttpReply(200, FALSE, "<html>")}
    \cup {[HttpReply(200, TRUE, "") EXCEPT !.access_token = b.access_token,
                                            !.expires_in = b.expires_in]
            : b \in IdentityBodies}

ForwardReplies ==
    {NetworkError, HttpReply(404, TRUE, "{}")}

\* an upstream request as issued by fetch()
Call(kind, tok, seed, lim, mkt, seeds) ==
    [kind |-> kind, token |-> tok, seed |-> seed, limit |-> lim, market |-> mkt,
     seeds |-> seeds]

NoSeeds == [artists |-> <<>>, tracks |-> <<>>, genres |-> <<>>]

\* Buffer.from(id + ":" + secret).toString("base64")
Base64(id, secret) ==
    CASE id = "client-id" /\ secret = "client-secret" -> "Y2xpZW50LWlkOmNsaWVudC1zZWNyZXQ="
      [] id = "client-id" /\ secret = "" -> "Y2xpZW50LWlkOg=="
      [] id = "" /\ secret = "client-secret" -> "OmNsaWVudC1zZWNyZXQ="
      [] id = "" /\ secret = "" -> "Og=="

\* the POST to the identity endpoint, authorized with `Basic ${auth}`
IdentityCall(e) ==
    Call("identity", Base64(e.SPOTIFY_CLIENT_ID, e.SPOTIFY_CLIENT_SECRET),
         <<>>, 0, <<>>, NoSeeds)

ForwardCall(tok) == Call("forward", tok, <<>>, 0, <<>>, NoSeeds)

\* what a handler sends to its client
Response(st, kind, err, tracks, upstream, url) ==
    [status |-> st, kind |-> kind, error |-> err, tracks |-> tracks,
     upstream |-> upstream, url |-> url]

\* a body in a response: the value JSON.parse gave for a text, or a text as it is
Parsed(txt) == [form |-> "json", of |-> txt]
Raw(txt) == [form |-> "text", of |-> txt]

\* a payload without upstream part
NoBody == Raw("")

\* the URL with the token appended as a query parameter
UrlOf_WithAccessToken(c) ==
    [kind |-> c.kind, seed |-> c.seed, limit |-> c.limit,
     market |-> c.market \o <<"&access_token=", c.token>>, seeds |-> c.seeds]

\* the URL of a request: its path and query, without the headers
UrlOf(c) ==
    [kind |-> c.kind, seed |-> c.seed, limit |-> c.limit, market |-> c.market,
     seeds |-> c.seeds]

\* the catch answering with a client-error status
ErrorResponse_BadRequest(e) == Response(400, "error", e, <<>>, NoBody, {})

\* res.status(500).json({ error: String(e) })
ErrorResponse(e) == Response(500, "error", e, <<>>, NoBody, {})

\* bodyJson ?? (bodyText || "(empty body)"), bodyJson being JSON.parse(bodyText)
\* for a non-empty text that parses, and null otherwise
ErrorPayload(r) ==
    LET bodyText == r.text
        bodyJson == IF bodyText # "" /\ r.json /\ bodyText # "null"
                    THEN {Parsed(bodyText)} ELSE {}
    IN  IF bodyJson # {} THEN Val(bodyJson)
        ELSE IF bodyText # "" THEN Raw(bodyText)
        ELSE Raw("(empty body)")

\* the error response always sent as 500
UpstreamErrorResponse_Status500(r, officialUrl) ==
    Response(500, "upstreamError", <<"Upstream Spotify error">>, <<>>,
             ErrorPayload(r), {UrlOf(officialUrl)})

\* res.status(r.status).json({ error, status, upstream, url })
UpstreamErrorResponse(r, officialUrl) ==
    Response(r.status, "upstreamError", <<"Upstream Spotify error">>, <<>>,
             ErrorPayload(r), {UrlOf(officialUrl)})

---------------------------------------------------------------------------
(* getAppToken *)

\* the cache test without the safety margin
CacheUsable_NoMargin(cache, t) ==
    Truthy(cache.access_token) /\ cache.expires_at > t

CacheUsable(cache, t) ==
    Truthy(cache.access_token) /\ cache.expires_at > t + SAFETY_MARGIN

CredentialsSet(e) == Truthy(e.SPOTIFY_CLIENT_ID) /\ Truthy(e.SPOTIFY_CLIENT_SECRET)

\* getAppToken fetching before it has looked at the credentials
GetAppTokenSync_FetchFirst(cache, t, e) ==
    IF CacheUsable(cache, t)
    THEN [kind |-> "return", token |-> cache.access_token, error |-> <<>>]
    ELSE [kind |-> "fetch", token |-> NULL, error |-> <<>>]

\* getAppToken up to its first await: return the cached token, throw, or fetch
GetAppTokenSync(cache, t, e) ==
    IF CacheUsable(cache, t)
    THEN [kind |-> "return", token |-> cache.access_token, error |-> <<>>]
    ELSE IF ~CredentialsSet(e)
    THEN [kind |-> "throw", token |-> NULL,
          error |-> <<"Error: Missing SPOTIFY_CLIENT_ID or SPOTIFY_CLIENT_SECRET">>]
    ELSE [kind |-> "fetch", token |-> NULL, error |-> <<>>]

\* a failed refresh hands back whatever the cache holds instead of throwing
GetAppTokenSettle_Swallow(r, t, cache) ==
    IF ~r.net \/ ~Ok(r) \/ ~r.json
    THEN [kind |-> "return", cache |-> cache, error |-> <<>>]
    ELSE [kind |-> "return",
          cache |-> [access_token |-> r.access_token, expires_at |-> t + r.expires_in],
          error |-> <<>>]

\* a refresh that never shortens the expiry the cache already holds
GetAppTokenSettle_KeepLaterExpiry(r, t, cache) ==
    IF ~r.net
    THEN [kind |-> "throw", cache |-> cache, error |-> <<"FetchError: request failed">>]
    ELSE IF ~Ok(r)
    THEN [kind |-> "throw", cache |-> cache,
          error |-> <<"Error: Spotify token error: ", r.text>>]
    ELSE IF ~r.json
    THEN [kind |-> "throw", cache |-> cache, error |-> <<"FetchError: invalid json">>]
    ELSE [kind |-> "return",
          cache |-> [access_token |-> r.access_token,
                     expires_at |-> Max(cache.expires_at, t + r.expires_in)],
          error |-> <<>>]

\* a failed refresh dropping the cached token before it throws
GetAppTokenSettle_ClearOnFailure(r, t, cache) ==
    IF ~r.net
    THEN [kind |-> "throw", cache |-> [access_token |-> NULL, expires_at |-> 0],
          error |-> <<"FetchError: request failed">>]
    ELSE IF ~Ok(r)
    THEN [kind |-> "throw", cache |-> [access_token |-> NULL, expires_at |-> 0],
          error |-> <<"Error: Spotify token error: ", r.text>>]
    ELSE IF ~r.json
    THEN [kind |-> "throw", cache |-> [access_token |-> NULL, expires_at |-> 0],
          error |-> <<"FetchError: invalid json">>]
    ELSE [kind |-> "return",
          cache |-> [access_token |-> r.access_token, expires_at |-> t + r.expires_in],
          error |-> <<>>]

\* getAppToken after the fetch has settled with r, at time t
GetAppTokenSettle(r, t, cache) ==
    IF ~r.net
    THEN [kind |-> "throw", cache |-> cache, error |-> <<"FetchError: request failed">>]
    ELSE IF ~Ok(r)
    THEN [kind |-> "throw", cache |-> cache,
          error |-> <<"Error: Spotify token error: ", r.text>>]
    ELSE IF ~r.json
    THEN [kind |-> "throw", cache |-> cache, error |-> <<"FetchError: invalid json">>]
    ELSE [kind |-> "return",
          cache |-> [access_token |-> r.access_token, expires_at |-> t + r.expires_in],
          error |-> <<>>]

---------------------------------------------------------------------------
(* Request shaping and the primary call *)

\* URLSearchParams.toString() on one value: the characters that delimit a query
\* string are percent-encoded, a space becomes "+"
FormEncodeChar(c) ==
    CASE c = "&" -> "%26"
      [] c = "=" -> "%3D"
      [] c = "#" -> "%23"
      [] c = "+" -> "%2B"
      [] c = "%" -> "%25"
      [] c = " " -> "+"
      [] OTHER -> c

FormEncode(v) == [i \in 1..Len(v) |-> FormEncodeChar(v[i])]

FormDecodeChar(c) ==
    CASE c = "%26" -> "&"
      [] c = "%3D" -> "="
      [] c = "%23" -> "#"
      [] c = "%2B" -> "+"
      [] c = "%25" -> "%"
      [] c = "+" -> " "
      [] OTHER -> c

\* the text up to the first "&" or "#": where a parameter's value ends in a URL
RECURSIVE ValueText(_)
ValueText(txt) ==
    IF txt = <<>> \/ Head(txt) \in {"&", "#"} THEN <<>>
    ELSE <<Head(txt)>> \o ValueText(Tail(txt))

\* the value a URL carries for a parameter written as `name=${txt}`
QueryValue(txt) ==
    LET v == ValueText(txt) IN [i \in 1..Len(v) |-> FormDecodeChar(v[i])]

\* `${API}/recommendations?${params.toString()}`
RecommendationsCall(tok, s, lim, mkt) ==
    Call("recommendations", tok, <<>>, lim, QueryValue(FormEncode(mkt)), s)

\* the locals the handler keeps from its request shaping
Shape(s, lim, mkt) ==
    /\ artistsArr' = s.artists
    /\ tracksArr' = s.tracks
    /\ genresArr' = s.genres
    /\ limit' = lim
    /\ market' = mkt

\* from `const token = await getAppToken()` to the fetch of officialUrl;
\* log holds the requests the handler has issued so far
RecoPrimary(tok, log) ==
    LET s == ResolveSeeds(query)
        lim == ResolveLimit(query)
        mkt == ResolveMarket(query)
    IN  /\ token' = [token EXCEPT ![Reco] = {tok}]
        /\ Shape(s, lim, mkt)
        /\ calls' = [calls EXCEPT ![Reco] =
                        Append(log, RecommendationsCall(tok, s, lim, mkt))]
        /\ pc' = [pc EXCEPT ![Reco] = "awaitPrimary"]
        /\ UNCHANGED <<response, stage, idx, collected, seen>>

---------------------------------------------------------------------------
(* The generic forwarder *)

\* forward(): the fetch of url with the bearer token
ForwardFetch(p, tok, log) ==
    /\ token' = [token EXCEPT ![p] = {tok}]
    /\ calls' = [calls EXCEPT ![p] = Append(log, ForwardCall(tok))]
    /\ pc' = [pc EXCEPT ![p] = "awaitUpstream"]
    /\ UNCHANGED <<response, artistsArr, tracksArr, genresArr, limit, market,
                   stage, idx, collected, seen>>

---------------------------------------------------------------------------
(* Steps shared by the handlers *)

\* the handler's code that follows `await getAppToken()`
Proceed(p, tok, log) ==
    IF p = Reco THEN RecoPrimary(tok, log) ELSE ForwardFetch(p, tok, log)

\* a catch block that logs the error and sends nothing
Catch_Silent(p, e, log) ==
    /\ response' = response
    /\ pc' = [pc EXCEPT ![p] = "done"]
    /\ calls' = [calls EXCEPT ![p] = log]
    /\ UNCHANGED <<token, artistsArr, tracksArr, genresArr, limit, market,
                   stage, idx, collected, seen>>

\* the handler's catch block: res.status(500).json({ error: String(e) })
Catch(p, e, log) ==
    /\ response' = [response EXCEPT ![p] = {ErrorResponse(e)}]
    /\ pc' = [pc EXCEPT ![p] = "done"]
    /\ calls' = [calls EXCEPT ![p] = log]
    /\ UNCHANGED <<token, artistsArr, tracksArr, genresArr, limit, market,
                   stage, idx, collected, seen>>

\* a handler is invoked and runs getAppToken up to its first await
Start(p) ==
    /\ pc[p] = "idle"
    /\ snap' = [snap EXCEPT ![p] = {[cache |-> cachedToken, at |-> now]}]
    /\ LET g == GetAppTokenSync(cachedToken, now, env)
       IN  CASE g.kind = "return" -> Proceed(p, g.token, <<>>)
             [] g.kind = "throw" -> Catch(p, g.error, <<>>)
             [] g.kind = "fetch" ->
                  /\ calls' = [calls EXCEPT ![p] = <<IdentityCall(env)>>]
                  /\ pc' = [pc EXCEPT ![p] = "awaitToken"]
                  /\ UNCHANGED <<token, response, artistsArr, tracksArr, genresArr,
                                 limit, market, stage, idx, collected, seen>>
    /\ UNCHANGED <<now, cachedToken, env, reply, query, sent>>

\* the fetch a handler awaits settles with r: its continuation is queued
Settle(p, awaiting, resuming, r) ==
    /\ pc[p] = awaiting
    /\ pc' = [pc EXCEPT ![p] = resuming]
    /\ reply' = [reply EXCEPT ![p] = {r}]
    /\ UNCHANGED <<now, cachedToken, env, token, calls, response, snap, served>>
    /\ UNCHANGED recoVars

\* the response object once its body has been read
Consumed(r) == [r EXCEPT !.items = <<>>]

\* the identity endpoint answers (or the fetch fails)
IdentityResponds(p) ==
    /\ pc[p] = "awaitToken"
    /\ \E r \in IdentityReplies : Settle(p, "awaitToken", "resumeToken", r)

\* getAppToken resumes after its fetch and the handler goes on
TokenSettled(p) ==
    /\ pc[p] = "resumeToken"
    /\ LET r == Val(reply[p])
           out == GetAppTokenSettle(r, now, cachedToken)
          IN  /\ reply' = [reply EXCEPT ![p] = {Consumed(r)}]
              /\ cachedToken' = out.cache
              /\ IF out.kind = "throw"
                 THEN Catch(p, out.error, calls[p])
                 ELSE Proceed(p, out.cache.access_token, calls[p])
    /\ UNCHANGED <<now, env, snap, served, query, sent>>

ForwardStart(p) ==
    /\ served < MaxServed
    /\ served' = served + 1
    /\ Start(p)

\* the catalog answers the forwarded request (or the fetch fails)
ForwardResponds(p) ==
    /\ pc[p] = "awaitUpstream"
    /\ \E r \in ForwardReplies : Settle(p, "awaitUpstream", "resumeUpstream", r)

\* forward() resumes: pass status and text through, or catch
ForwardSettled(p) ==
    /\ pc[p] = "resumeUpstream"
    /\ LET r == Val(reply[p]) IN
          /\ reply' = [reply EXCEPT ![p] = {Consumed(r)}]
          /\ IF ~r.net
             THEN Catch(p, <<"FetchError: request failed">>, calls[p])
             ELSE /\ response' = [response EXCEPT ![p] =
                         {Response(r.status, "passthrough", <<>>, <<>>, Raw(r.text), {})}]
                  /\ pc' = [pc EXCEPT ![p] = "done"]
                  /\ UNCHANGED <<token, calls, artistsArr, tracksArr, genresArr,
                                 limit, market, stage, idx, collected, seen>>
    /\ UNCHANGED <<now, cachedToken, env, snap, served, query, sent>>

\* the invocation is over; the next request gets a fresh one
ForwardReturn(p) ==
    /\ pc[p] = "done"
    /\ pc' = [pc EXCEPT ![p] = "idle"]
    /\ token' = [token EXCEPT ![p] = {}]
    /\ calls' = [calls EXCEPT ![p] = <<>>]
    /\ response' = [response EXCEPT ![p] = {}]
    /\ snap' = [snap EXCEPT ![p] = {}]
    /\ reply' = [reply EXCEPT ![p] = {}]
    /\ UNCHANGED <<now, cachedToken, env, served>>
    /\ UNCHANGED recoVars

\* a second of wall-clock time passes (in steps of TickStep)
Tick ==
    /\ now + TickStep <= MaxTime
    /\ now' = now + TickStep
    /\ UNCHANGED <<cachedToken, env, pc, token, reply, calls, response, snap, served>>
    /\ UNCHANGED recoVars

---------------------------------------------------------------------------
(* The recommendations handler: primary call and fallback *)

TrackIds == {"T1", "T2", "T3"}

\* an entry of an upstream track list: obj = FALSE is a null entry, id = "" an
\* object without id; src stands for the rest of the object (which sub-call
\* delivered it)
Track(isObj, id, src) == [obj |-> isObj, id |-> id, src |-> src]

ItemShapes == {[obj |-> TRUE, id |-> t] : t \in TrackIds \cup {""}}
              \cup {[obj |-> FALSE, id |-> ""]}

ItemLists == UNION {[1..n -> ItemShapes] : n \in 0..MaxItems}

\* the entries of one reply, stamped with the sub-call that delivered them
Stamp(shapes, n) == [i \in 1..Len(shapes) |-> Track(shapes[i].obj, shapes[i].id, n)]

PrimaryReplies ==
    {NetworkError}
    \cup {HttpReply(st, js, "body") : st \in {200, 401, 500}, js \in BOOLEAN}
    \cup {HttpReply(st, TRUE, "body") : st \in {403, 404}}
    \cup {HttpReply(401, FALSE, ""), HttpReply(500, TRUE, "null")}

\* replies to a top-tracks or search sub-call
ListReplies(n) ==
    {NetworkError, HttpReply(429, TRUE, "busy"), HttpReply(200, FALSE, "<html>")}
    \cup {[HttpReply(200, TRUE, "") EXCEPT !.items = Stamp(l, n)] : l \in ItemLists}

\* replies to a track lookup: the body is the track itself
TrackReplies(n) ==
    {NetworkError, HttpReply(404, TRUE, "none"), HttpReply(200, FALSE, "<html>")}
    \cup {[HttpReply(200, TRUE, "") EXCEPT !.items = Stamp(<<i>>, n)] : i \in ItemShapes}

\* pushUnique without the seen test
pushUnique_NoSeen(st, track) ==
    IF ~track.obj \/ ~Truthy(track.id)
    THEN st
    ELSE [collected |-> Append(st.collected, track), seen |-> st.seen \cup {track.id}]

\* pushUnique on the pair (collected, seen)
pushUnique(st, track) ==
    IF ~track.obj \/ ~Truthy(track.id) \/ track.id \in st.seen
    THEN st
    ELSE [collected |-> Append(st.collected, track), seen |-> st.seen \cup {track.id}]

\* items.forEach(pushUnique)
RECURSIVE PushEach(_, _)
PushEach(st, items) ==
    IF items = <<>> THEN st ELSE PushEach(pushUnique(st, Head(items)), Tail(items))

\* the tracks a settled sub-call hands to pushUnique: none when the fetch was
\* rejected, the status is not ok or the body does not parse (the empty catch)
Delivered(r) == IF r.net /\ Ok(r) /\ r.json THEN r.items ELSE <<>>

\* fetch() or json() rejecting inside the try block of one loop iteration
Throws(r) == ~r.net \/ (Ok(r) /\ ~r.json)

\* an iteration without its try/catch: what a sub-call throws reaches the handler
SubFatal_NoCatch(r) == Throws(r)

\* whether a failure of the sub-call leaves the loop: the catch of each
\* iteration is empty, so nothing does
SubFatal(r) == FALSE

\* any client-error status sends the handler into the fallback
FallbackStatus_Any4xx(st) == st >= 400 /\ st <= 499

\* r.status === 404 || r.status === 403
FallbackStatus(st) == st = 404 \/ st = 403

Pos(st, i) == [stage |-> st, idx |-> i]

\* 3) the track-seed loop is entered, or the handler responds
EnterTracks(n) ==
    IF n < limit /\ Len(tracksArr) > 0 THEN Pos("tracks", 1) ELSE Pos("merge", 0)

\* 2) the genre-seed loop is entered or skipped
EnterGenres(n) ==
    IF n < limit /\ Len(genresArr) > 0 THEN Pos("genres", 1) ELSE EnterTracks(n)

\* the fallback starting with the genre seeds when there are any
EnterArtists_GenresFirst ==
    IF Len(genresArr) > 0 THEN Pos("genres", 1)
    ELSE IF Len(artistsArr) > 0 THEN Pos("artists", 1)
    ELSE EnterTracks(0)

\* 1) the artist-seed loop is entered or skipped
EnterArtists ==
    IF Len(artistsArr) > 0 THEN Pos("artists", 1) ELSE EnterGenres(0)

\* the loops without `if (collected.length >= limit) break`
AfterIteration_NoBreak(st, i, n) ==
    CASE st = "artists" ->
            IF i >= Len(artistsArr) THEN EnterGenres(n) ELSE Pos("artists", i + 1)
      [] st = "genres" ->
            IF i >= Len(genresArr) THEN EnterTracks(n) ELSE Pos("genres", i + 1)
      [] st = "tracks" ->
            IF i >= Len(tracksArr) THEN Pos("merge", 0) ELSE Pos("tracks", i + 1)

\* a seed is called again as long as nothing has been collected
AfterIteration_RetryEmpty(st, i, n) ==
    IF n = 0 THEN Pos(st, i)
    ELSE CASE st = "artists" ->
                 IF n >= limit \/ i >= Len(artistsArr) THEN EnterGenres(n)
                 ELSE Pos("artists", i + 1)
           [] st = "genres" ->
                 IF n >= limit \/ i >= Len(genresArr) THEN EnterTracks(n)
                 ELSE Pos("genres", i + 1)
           [] st = "tracks" ->
                 IF n >= limit \/ i >= Len(tracksArr) THEN Pos("merge", 0)
                 ELSE Pos("tracks", i + 1)

\* where the handler goes after the iteration (st, i) with n tracks collected
AfterIteration(st, i, n) ==
    CASE st = "artists" ->
            IF n >= limit \/ i >= Len(artistsArr) THEN EnterGenres(n)
            ELSE Pos("artists", i + 1)
      [] st = "genres" ->
            IF n >= limit \/ i >= Len(genresArr) THEN EnterTracks(n)
            ELSE Pos("genres", i + 1)
      [] st = "tracks" ->
            IF n >= limit \/ i >= Len(tracksArr) THEN Pos("merge", 0)
            ELSE Pos("tracks", i + 1)

\* each sub-call made with the token the cache holds when it is issued
SubCall_CachedToken(st, i) ==
    CASE st = "artists" ->
            Call("top-tracks", cachedToken.access_token, artistsArr[i], 0,
                 QueryValue(market), NoSeeds)
      [] st = "genres" ->
            Call("search", cachedToken.access_token, genresArr[i],
                 Min(SEARCH_CAP, limit), QueryValue(market), NoSeeds)
      [] st = "tracks" ->
            Call("tracks", cachedToken.access_token, tracksArr[i], 0, <<>>, NoSeeds)

\* the genre search asking for `limit` results whatever the limit
SubCall_NoCap(st, i) ==
    CASE st = "artists" ->
            Call("top-tracks", Val(token[Reco]), artistsArr[i], 0, QueryValue(market),
                 NoSeeds)
      [] st = "genres" ->
            Call("search", Val(token[Reco]), genresArr[i], limit, QueryValue(market),
                 NoSeeds)
      [] st = "tracks" ->
            Call("tracks", Val(token[Reco]), tracksArr[i], 0, <<>>, NoSeeds)

\* the sub-call of iteration (st, i); `market=${params.get("market")}` puts the
\* market in the URL as it is
SubCall(st, i) ==
    CASE st = "artists" ->
            Call("top-tracks", Val(token[Reco]), artistsArr[i], 0, QueryValue(market),
                 NoSeeds)
      [] st = "genres" ->
            Call("search", Val(token[Reco]), genresArr[i], Min(SEARCH_CAP, limit),
                 QueryValue(market), NoSeeds)
      [] st = "tracks" ->
            Call("tracks", Val(token[Reco]), tracksArr[i], 0, <<>>, NoSeeds)

\* the collection sent as it is
FallbackResponse_NoSlice(coll) == Response(200, "tracks", <<>>, coll, NoBody, {})

\* res.json({ tracks: collected.slice(0, limit) })
FallbackResponse(coll) == Response(200, "tracks", <<>>, Slice(coll, limit), NoBody, {})

\* the handler moves to position pos with coll collected: it issues the next
\* sub-call, or sends the fallback response
Goto(pos, coll) ==
    /\ stage' = pos.stage
    /\ idx' = pos.idx
    /\ IF pos.stage = "merge"
       THEN /\ response' = [response EXCEPT ![Reco] = {FallbackResponse(coll)}]
            /\ pc' = [pc EXCEPT ![Reco] = "done"]
            /\ calls' = calls
       ELSE /\ calls' = [calls EXCEPT ![Reco] =
                            Append(@, SubCall(pos.stage, pos.idx))]
            /\ pc' = [pc EXCEPT ![Reco] = "awaitSub"]
            /\ response' = response

RecoStart ==
    /\ Start(Reco)
    /\ UNCHANGED served

\* the catalog answers the recommendations call (or the fetch fails)
PrimaryResponds ==
    /\ pc[Reco] = "awaitPrimary"
    /\ \E r \in PrimaryReplies : Settle(Reco, "awaitPrimary", "resumePrimary", r)

\* the handler resumes after the recommendations call
PrimarySettled ==
    /\ pc[Reco] = "resumePrimary"
    /\ LET r == Val(reply[Reco])
           officialUrl == calls[Reco][Len(calls[Reco])]
          IN  /\ reply' = [reply EXCEPT ![Reco] = {Consumed(r)}]
              /\ IF ~r.net
                 THEN Catch(Reco, <<"FetchError: request failed">>, calls[Reco])
                 ELSE IF Ok(r)
                 THEN IF r.json
                      THEN /\ response' = [response EXCEPT ![Reco] =
                                  {Response(200, "upstream", <<>>, <<>>, Parsed(r.text),
                                            {})}]
                           /\ pc' = [pc EXCEPT ![Reco] = "done"]
                           /\ UNCHANGED <<token, calls, artistsArr, tracksArr,
                                          genresArr, limit, market, stage, idx,
                                          collected, seen>>
                      ELSE Catch(Reco, <<"FetchError: invalid json">>, calls[Reco])
                 ELSE IF FallbackStatus(r.status)
                 THEN /\ collected' = <<>>
                      /\ seen' = {}
                      /\ Goto(EnterArtists, <<>>)
                      /\ UNCHANGED <<token, artistsArr, tracksArr, genresArr, limit,
                                     market>>
                 ELSE /\ response' = [response EXCEPT ![Reco] =
                             {UpstreamErrorResponse(r, officialUrl)}]
                      /\ pc' = [pc EXCEPT ![Reco] = "done"]
                      /\ UNCHANGED <<token, calls, artistsArr, tracksArr, genresArr,
                                     limit, market, stage, idx, collected, seen>>
    /\ UNCHANGED <<now, cachedToken, env, snap, served, query, sent>>

\* the catalog answers the fallback sub-call (or the fetch fails)
SubResponds ==
    /\ pc[Reco] = "awaitSub"
    /\ \E r \in IF stage = "tracks" THEN TrackReplies(Len(calls[Reco]))
                ELSE ListReplies(Len(calls[Reco])) :
           Settle(Reco, "awaitSub", "resumeSub", r)

\* the handler resumes after a fallback sub-call: one loop iteration ends
SubSettled ==
    /\ pc[Reco] = "resumeSub"
    /\ LET r == Val(reply[Reco])
           st == PushEach([collected |-> collected, seen |-> seen], Delivered(r))
          IN  /\ reply' = [reply EXCEPT ![Reco] = {Consumed(r)}]
              /\ IF SubFatal(r)
                 THEN Catch(Reco, <<"FetchError: sub-call failed">>, calls[Reco])
                 ELSE /\ collected' = st.collected
                      /\ seen' = st.seen
                      /\ Goto(AfterIteration(stage, idx, Len(st.collected)),
                              st.collected)
                      /\ UNCHANGED <<token, artistsArr, tracksArr, genresArr, limit,
                                     market>>
    /\ UNCHANGED <<now, cachedToken, env, snap, served, query, sent>>

---------------------------------------------------------------------------
(* States after construction *)

EmptyCache == [access_token |-> NULL, expires_at |-> 0]

EnvChoices ==
    {[SPOTIFY_CLIENT_ID |-> i, SPOTIFY_CLIENT_SECRET |-> s] :
        i \in {"", "client-id"}, s \in {"", "client-secret"}}

\* one comma-separated entry as the client wrote it: an id or nothing, with or
\* without white space around it
Slot(id, pad) == [id |-> id, pad |-> pad]

SlotText(sl) ==
    (IF sl.pad THEN <<" ">> ELSE <<>>)
    \o (IF sl.id = "" THEN <<>> ELSE <<sl.id>>)
    \o (IF sl.pad /\ sl.id # "" THEN <<" ">> ELSE <<>>)

\* the entries joined by commas
RECURSIVE JoinSlots(_)
JoinSlots(slots) ==
    IF slots = <<>> THEN <<>>
    ELSE IF Len(slots) = 1 THEN SlotText(slots[1])
    ELSE SlotText(slots[1]) \o <<",">> \o JoinSlots(Tail(slots))

\* the ids among the entries, in order
RECURSIVE SlotIds(_)
SlotIds(slots) ==
    IF slots = <<>> THEN <<>>
    ELSE (IF slots[1].id = "" THEN <<>> ELSE << <<slots[1].id>> >>)
         \o SlotIds(Tail(slots))

\* a seed parameter: absent, or the text of its entries
SeedParam(o) == IF o = {} THEN {} ELSE {JoinSlots(Val(o))}

SeedIds(o) == IF o = {} THEN <<>> ELSE SlotIds(Val(o))

\* decimal digits of a natural number
RECURSIVE ToDigits(_)
ToDigits(n) ==
    IF n < 10 THEN <<DigitChars[n + 1]>>
    ELSE ToDigits(n \div 10) \o <<DigitChars[(n % 10) + 1]>>

\* a limit parameter as the client wrote it: white space, sign, digits, rest
LimitIn(given, ws, neg, num, rest) ==
    [given |-> given, ws |-> ws, neg |-> neg, num |-> num, rest |-> rest]

NoLimit == LimitIn(FALSE, FALSE, FALSE, {}, <<>>)

LimitParam(li) ==
    IF ~li.given THEN {}
    ELSE {(IF li.ws THEN <<" ">> ELSE <<>>)
          \o (IF li.neg THEN <<"-">> ELSE <<>>)
          \o (IF li.num = {} THEN <<>> ELSE ToDigits(Val(li.num)))
          \o li.rest}

\* a request: req.query, and beside it what the client meant
Request(a, t, g, li, m) ==
    [query |-> [seed_artists |-> SeedParam(a), seed_tracks |-> SeedParam(t),
                seed_genres |-> SeedParam(g), limit |-> LimitParam(li),
                market |-> m],
     sent |-> [artists |-> SeedIds(a), tracks |-> SeedIds(t), genres |-> SeedIds(g),
               limit |-> li]]

NoRequest == Request({}, {}, {}, NoLimit, {})

InitProcs ==
    /\ pc = [p \in Procs |-> "idle"]
    /\ token = [p \in Procs |-> {}]
    /\ reply = [p \in Procs |-> {}]
    /\ calls = [p \in Procs |-> <<>>]
    /\ response = [p \in Procs |-> {}]
    /\ snap = [p \in Procs |-> {}]
    /\ served = 0

InitReco ==
    /\ artistsArr = <<>>
    /\ tracksArr = <<>>
    /\ genresArr = <<>>
    /\ limit = 0
    /\ market = <<>>
    /\ stage = "none"
    /\ idx = 0
    /\ collected = <<>>
    /\ seen = {}

\* the token cache under concurrent forwarded requests
InitToken ==
    /\ now = 0
    /\ cachedToken = EmptyCache
    /\ env \in EnvChoices
    /\ query = NoRequest.query
    /\ sent = NoRequest.sent
    /\ InitProcs
    /\ InitReco

NextToken ==
    \/ Tick
    \/ \E p \in Forwarders :
          \/ ForwardStart(p)
          \/ IdentityResponds(p)
          \/ TokenSettled(p)
          \/ ForwardResponds(p)
          \/ ForwardSettled(p)
          \/ ForwardReturn(p)

SpecToken == InitToken /\ [][NextToken]_vars

---------------------------------------------------------------------------
(* Claims about getAppToken *)

\* number of identity-endpoint requests in a handler's log
RECURSIVE IdentityRequests(_)
IdentityRequests(log) ==
    IF log = <<>> THEN 0
    ELSE (IF Head(log).kind = "identity" THEN 1 ELSE 0) + IdentityRequests(Tail(log))

\* the cache as a getAppToken call found it holds a token that expires more
\* than 30 seconds after the call
SnapUsable(s) ==
    /\ s.cache.access_token \notin {NULL, ""}
    /\ s.cache.expires_at > s.at + 30

\* C1: a getAppToken call that finds a token expiring more than 30 s ahead
\* returns that token and issues no identity request; with credentials
\* configured, a call that finds the cache empty or within 30 s of expiry
\* issues exactly one identity request.
C1_TokenReuse ==
    \A p \in Procs :
        snap[p] # {} =>
            LET s == Val(snap[p])
                n == IdentityRequests(calls[p])
            IN  /\ SnapUsable(s) => n = 0 /\ token[p] = {s.cache.access_token}
                /\ (~SnapUsable(s) /\ CredentialsSet(env)) => n = 1

\* one request served from the cache has finished while another, started
\* within 30 s of the expiry of a cached token, has fetched a new one
C1_Witness ==
    \E p, q \in Forwarders :
        /\ p # q
        /\ snap[p] # {} /\ SnapUsable(Val(snap[p])) /\ pc[p] = "done"
        /\ snap[q] # {} /\ ~SnapUsable(Val(snap[q]))
        /\ Val(snap[q]).cache.access_token # NULL
        /\ IdentityRequests(calls[q]) = 1
        /\ pc[q] = "awaitUpstream"

---------------------------------------------------------------------------
(* One recommendations request *)

Plain(n) == LimitIn(TRUE, FALSE, FALSE, {n}, <<>>)

Requests ==
    {Request(a, t, g, li, m) :
        a \in {{}, {<<Slot("A1", FALSE)>>},
               {<<Slot("A1", FALSE), Slot("A2", TRUE)>>},
               {<<Slot("A1", FALSE), Slot("A2", FALSE), Slot("A3", FALSE)>>}},
        t \in {{}, {<<Slot("K1", FALSE)>>}},
        g \in {{}, {<<Slot("rock", FALSE)>>}},
        li \in {NoLimit, Plain(1), Plain(2), Plain(3)},
        m \in {{}, {<<"GB">>}}}
    \cup {Request({}, {}, {}, Plain(60), {})}
    \cup {Request({<<Slot("A1", FALSE)>>}, {}, {<<Slot("rock", FALSE)>>}, Plain(2), {m})
            : m \in {<<>>, <<"GB", "&", "x">>}}

\* the cache as an earlier request left it, and the time since
CacheChoices ==
    {[cache |-> EmptyCache, at |-> 0],
     [cache |-> [access_token |-> "tokA", expires_at |-> 60], at |-> 15]}

Init ==
    /\ \E c \in CacheChoices : cachedToken = c.cache /\ now = c.at
    /\ env \in {e \in EnvChoices : Truthy(e.SPOTIFY_CLIENT_ID)}
    /\ \E rq \in Requests : query = rq.query /\ sent = rq.sent
    /\ InitProcs
    /\ InitReco

Next ==
    \/ RecoStart
    \/ IdentityResponds(Reco)
    \/ TokenSettled(Reco)
    \/ PrimaryResponds
    \/ PrimarySettled
    \/ SubResponds
    \/ SubSettled

Spec == Init /\ [][Next]_vars

\* the same request when every fetch settles and every continuation the event
\* loop has queued is run
Fairness ==
    /\ WF_vars(IdentityResponds(Reco))
    /\ WF_vars(TokenSettled(Reco))
    /\ WF_vars(PrimaryResponds)
    /\ WF_vars(PrimarySettled)
    /\ WF_vars(SubResponds)
    /\ WF_vars(SubSettled)

\* the requests followed to their end: with or without artist seeds, with or
\* without a track seed, limit 2
LiveRequests ==
    {Request(a, t, {}, Plain(2), {}) :
        a \in {{}, {<<Slot("A1", FALSE), Slot("A2", TRUE)>>}},
        t \in {{}, {<<Slot("K1", FALSE)>>}}}

InitLive ==
    /\ \E c \in CacheChoices : cachedToken = c.cache /\ now = c.at
    /\ env \in {e \in EnvChoices : Truthy(e.SPOTIFY_CLIENT_ID)}
    /\ \E rq \in LiveRequests : query = rq.query /\ sent = rq.sent
    /\ InitProcs
    /\ InitReco

SpecLive == InitLive /\ [][Next]_vars /\ Fairness

---------------------------------------------------------------------------
(* Request shaping on its own: seeds, limit and market of any query *)

\* the shaping statements of the handler, applied to the query
ShapeRequest ==
    /\ pc[Reco] = "idle"
    /\ Shape(ResolveSeeds(query), ResolveLimit(query), ResolveMarket(query))
    /\ pc' = [pc EXCEPT ![Reco] = "shaped"]
    /\ UNCHANGED <<now, cachedToken, env, token, reply, calls, response, snap, served,
                   query, sent, stage, idx, collected, seen>>

ArtistNames == <<"A1", "A2", "A3", "A4", "A5", "A6", "A7", "A8">>
TrackNames == <<"K1", "K2", "K3", "K4">>
GenreNames == <<"jazz", "rock", "pop", "folk">>

\* the entry lists of up to maxLen entries: entry k is the k-th name or blank,
\* every second id and every second blank padded with white space
SlotSeqs(names, maxLen) ==
    UNION {{[k \in 1..n |-> IF k \in S THEN Slot(names[k], k % 2 = 0)
                            ELSE Slot("", k % 2 = 1)] : S \in SUBSET (1..n)}
           : n \in 0..maxLen}

Optional(S) == {{}} \cup {{x} : x \in S}

SeedRequests ==
    {Request(a, t, g, NoLimit, {}) :
        a \in Optional(SlotSeqs(ArtistNames, MaxArtistFields)),
        t \in Optional(SlotSeqs(TrackNames, MaxOtherFields)),
        g \in Optional(SlotSeqs(GenreNames, MaxOtherFields))}

LimitRequests ==
    {Request({}, {}, {}, LimitIn(TRUE, ws, neg, num, rest), {<<"GB">>}) :
        ws \in BOOLEAN, neg \in BOOLEAN, num \in Optional(0..MaxLimitValue),
        rest \in {<<>>, <<"x">>, <<".", "7">>}}

InitShape ==
    /\ now = 0
    /\ cachedToken = EmptyCache
    /\ env \in {e \in EnvChoices : CredentialsSet(e)}
    /\ \E rq \in SeedRequests \cup LimitRequests : query = rq.query /\ sent = rq.sent
    /\ InitProcs
    /\ InitReco

NextShape == ShapeRequest

SpecShape == InitShape /\ [][NextShape]_vars

---------------------------------------------------------------------------
(* Claims about request shaping *)

Shaped == pc[Reco] = "shaped"

\* the first n entries of a list
Prefix(l, n) == [i \in 1..n |-> l[i]]

\* the genre entries the cap is applied to: the defaults when no seed was sent
GenresToCap ==
    IF Len(sent.artists) + Len(sent.tracks) + Len(sent.genres) = 0
    THEN << <<"pop">>, <<"rock">>, <<"hip-hop">> >>
    ELSE sent.genres

\* C3: the normalized seeds number at most five; artists are the first
\* min(5, n) artist entries, tracks the first entries that fit in the slots
\* artists leave, genres the first that fit after both, input order kept.
C3_SeedCap ==
    Shaped =>
        LET na == Min(5, Len(sent.artists))
            nt == Min(5 - na, Len(sent.tracks))
            ng == Min(5 - na - nt, Len(GenresToCap))
        IN  /\ Len(artistsArr) + Len(tracksArr) + Len(genresArr) <= 5
            /\ artistsArr = Prefix(sent.artists, na)
            /\ tracksArr = Prefix(sent.tracks, nt)
            /\ genresArr = Prefix(GenresToCap, ng)

\* six artist seeds with track and genre seeds beside them:
\* the first five artists are kept and nothing else
C3_Witness ==
    /\ Shaped
    /\ Len(sent.artists) = 6
    /\ Len(sent.tracks) > 0
    /\ Len(sent.genres) > 0
    /\ artistsArr = << <<"A1">>, <<"A2">>, <<"A3">>, <<"A4">>, <<"A5">> >>
    /\ tracksArr = <<>>
    /\ genresArr = <<>>

\* C4: without any seed (lists absent, empty or blank) the seeds are exactly
\* the genres pop, rock, hip-hop; with a seed the defaults are not substituted.
C4_DefaultGenres ==
    Shaped =>
        IF Len(sent.artists) + Len(sent.tracks) + Len(sent.genres) = 0
        THEN /\ artistsArr = <<>>
             /\ tracksArr = <<>>
             /\ genresArr = << <<"pop">>, <<"rock">>, <<"hip-hop">> >>
        ELSE /\ Len(genresArr) <= Len(sent.genres)
             /\ \A i \in 1..Len(genresArr) : genresArr[i] = sent.genres[i]

\* seed lists made of blank entries only get the default genres
C4_Witness ==
    /\ Shaped
    /\ query.seed_artists = {<<" ", ",">>}
    /\ query.seed_genres = {<<" ">>}
    /\ query.seed_tracks = {}
    /\ genresArr = DefaultGenres
    /\ artistsArr = <<>>

\* C5: whatever the limit parameter, the resolved limit is an integer in
\* [1, 100], and it is 20 when the parameter is absent or has no number.
C5_LimitRange ==
    Shaped =>
        /\ limit \in 1..100
        /\ (~sent.limit.given \/ sent.limit.num = {}) => limit = 20

\* a negative fraction is resolved to 1
C5_Witness ==
    /\ Shaped
    /\ sent.limit.neg
    /\ sent.limit.num = {3}
    /\ sent.limit.rest = <<".", "7">>
    /\ limit = 1

---------------------------------------------------------------------------
(* Claims about the recommendations handler *)

SubKinds == {"top-tracks", "search", "tracks"}

Last(l) == l[Len(l)]

\* this step issues a fallback sub-call
IssuesSubCall ==
    /\ Len(calls'[Reco]) > Len(calls[Reco])
    /\ Last(calls'[Reco]).kind \in SubKinds

\* this step is the handler resuming after the recommendations call
PrimaryReturns == pc[Reco] = "resumePrimary" /\ pc'[Reco] # "resumePrimary"

\* this step is the handler resuming after a fallback sub-call
SubReturns == pc[Reco] = "resumeSub" /\ pc'[Reco] # "resumeSub"

\* the response object the handler holds
Held == Val(reply[Reco])

Is2xx(r) == r.net /\ r.status \in 200..299

\* a fallback sub-call is issued only by a handler whose recommendations call
\* returned 404 or 403; after any other status, and once the response is sent,
\* the handler issues nothing
FallbackOnlyAfter404Or403 ==
    /\ IssuesSubCall =>
          \/ SubReturns
          \/ PrimaryReturns /\ Held.net /\ Held.status \in {404, 403}
    /\ (PrimaryReturns /\ Held.net /\ Held.status \notin {404, 403}) =>
          calls'[Reco] = calls[Reco] /\ pc'[Reco] = "done"
    /\ pc[Reco] = "done" => calls'[Reco] = calls[Reco] /\ pc'[Reco] = "done"

\* C2 as stated: fallback sub-calls only after a 404 or 403 of the primary
\* call; on every 2xx the upstream body is returned and no sub-call issued; on
\* any other status no sub-call is ever issued.
C2_Original ==
    [][/\ FallbackOnlyAfter404Or403
       /\ (PrimaryReturns /\ Is2xx(Held)) =>
             response'[Reco] =
                 {Response(200, "upstream", <<>>, <<>>, Parsed(Held.text), {})}
      ]_vars

\* C2 amended: as above, but the upstream body is returned on a 2xx whose
\* body parses as JSON; a 2xx whose body does not parse ends in the 500 error
\* response of the handler's catch, also without any sub-call.
C2_FallbackTrigger ==
    [][/\ FallbackOnlyAfter404Or403
       /\ (PrimaryReturns /\ Is2xx(Held) /\ Held.json) =>
             response'[Reco] =
                 {Response(200, "upstream", <<>>, <<>>, Parsed(Held.text), {})}
       /\ (PrimaryReturns /\ Is2xx(Held) /\ ~Held.json) =>
             /\ response'[Reco] # {}
             /\ Val(response'[Reco]).status = 500
             /\ Val(response'[Reco]).kind = "error"
      ]_vars

\* the first fallback sub-call is in flight and the response the handler
\* holds is the 403 of the recommendations call
C2_Witness ==
    /\ pc[Reco] = "awaitSub"
    /\ reply[Reco] = {HttpReply(403, TRUE, "body")}
    /\ Last(calls[Reco]).kind = "top-tracks"
    /\ calls[Reco][Len(calls[Reco]) - 1].kind = "recommendations"

\* ids of a track list
Ids(l) == {l[i].id : i \in 1..Len(l)}

\* the entries of a delivered list that carry an id neither collected before
\* nor met earlier in the list, in the order of the list
RECURSIVE FirstNew(_, _)
FirstNew(items, have) ==
    IF items = <<>> THEN <<>>
    ELSE LET h == Head(items)
         IN  IF h.obj /\ h.id # "" /\ h.id \notin have
             THEN <<h>> \o FirstNew(Tail(items), have \cup {h.id})
             ELSE FirstNew(Tail(items), have)

\* the track list a settled sub-call carries, if any
Carried(r) == IF Is2xx(r) /\ r.json THEN r.items ELSE <<>>

\* C6: the collection never holds two entries with one id nor an entry
\* without id; each sub-call result appends, in its own order, exactly the
\* entries whose id is new, and changes nothing collected before.
C6_Dedup ==
    [][/\ \A i, j \in 1..Len(collected') :
             collected'[i].id = collected'[j].id => i = j
       /\ \A i \in 1..Len(collected') : collected'[i].obj /\ collected'[i].id # ""
       /\ IF SubReturns
          THEN collected' = collected \o FirstNew(Carried(Held), Ids(collected))
          ELSE collected' = collected
      ]_vars

\* a track list is about to be merged that repeats a collected id, repeats an
\* id within itself or lacks one, after an earlier list has been merged
C6_Witness ==
    /\ pc[Reco] = "resumeSub"
    /\ Len(collected) = 2
    /\ collected[1].id = "T1" /\ collected[2].id = "T2"
    /\ Len(Held.items) = 2
    /\ Held.items[1].id = "T2" /\ Held.items[2].id = "T3"
    /\ Is2xx(Held) /\ Held.json
    /\ limit = 3

\* C7: a fallback sub-call is issued only while the collection holds fewer
\* than `limit` tracks; once it holds `limit`, no call follows, neither for a
\* later seed of the stage nor in a later stage.
C7_ShortCircuit ==
    [][/\ IssuesSubCall => Len(collected') < limit'
       /\ (stage # "none" /\ Len(collected) >= limit) => calls'[Reco] = calls[Reco]
      ]_vars

\* limit 3, three artist seeds and a genre seed: the first two artists yield
\* T1, T2 and T3, and the request ends without a call for the third artist
\* or the genre
C7_Witness ==
    /\ pc[Reco] = "done"
    /\ limit = 3
    /\ Len(artistsArr) = 3
    /\ Len(genresArr) = 1
    /\ [i \in 1..Len(collected) |-> collected[i].id] = <<"T1", "T2", "T3">>
    /\ collected[2].src # collected[3].src
    /\ Last(calls[Reco]).kind = "top-tracks"
    /\ Last(calls[Reco]).seed = artistsArr[2]
    /\ Val(response[Reco]).kind = "tracks"

\* C8: the fallback response is 200 {tracks: L}, L being the first
\* min(limit, |collection|) entries of the collection in its order.
C8_MergeTruncates ==
    (pc[Reco] = "done" /\ stage = "merge") =>
        /\ response[Reco] # {}
        /\ LET resp == Val(response[Reco])
               n == Min(limit, Len(collected))
           IN  /\ resp.status = 200
               /\ resp.kind = "tracks"
               /\ Len(resp.tracks) <= limit
               /\ resp.tracks = [i \in 1..n |-> collected[i]]

\* limit 1 and a single sub-call that delivered two new tracks
C8_Witness ==
    /\ pc[Reco] = "done"
    /\ stage = "merge"
    /\ limit = 1
    /\ Len(collected) = 2
    /\ collected[1].src = collected[2].src
    /\ Len(Val(response[Reco]).tracks) = 1

\* the seeds of a fallback stage
SeedsOf(st) ==
    CASE st = "artists" -> artistsArr
      [] st = "genres" -> genresArr
      [] st = "tracks" -> tracksArr

\* the stages after st that have seeds, in order
LaterStages(st) ==
    SelectSeq(CASE st = "artists" -> <<"genres", "tracks">>
                [] st = "genres" -> <<"tracks">>
                [] st = "tracks" -> <<>>,
              LAMBDA x : Len(SeedsOf(x)) > 0)

SubFailed(r) == ~r.net \/ r.status \notin 200..299 \/ ~r.json

\* C9: a failed sub-call (rejected fetch, non-2xx status, unparsable body)
\* leaves the collection as it is and the handler goes on to the next seed of
\* the stage, else to the next stage that has seeds, else to the response;
\* a request that entered the fallback ends with 200 {tracks}.
C9_FailureSkipped ==
    [][/\ (SubReturns /\ SubFailed(Held)) =>
             /\ collected' = collected
             /\ IF idx < Len(SeedsOf(stage))
                THEN /\ stage' = stage /\ idx' = idx + 1
                     /\ IssuesSubCall
                     /\ Last(calls'[Reco]).seed = SeedsOf(stage)[idx + 1]
                ELSE IF LaterStages(stage) # <<>>
                THEN /\ stage' = Head(LaterStages(stage)) /\ idx' = 1
                     /\ IssuesSubCall
                     /\ Last(calls'[Reco]).seed = SeedsOf(Head(LaterStages(stage)))[1]
                ELSE pc'[Reco] = "done"
       /\ (stage' # "none" /\ pc'[Reco] = "done") =>
             /\ response'[Reco] # {}
             /\ Val(response'[Reco]).status = 200
             /\ Val(response'[Reco]).kind = "tracks"
      ]_vars

\* the sub-call for the first artist failed on the network and the call for
\* the second artist is in flight
C9_Witness ==
    /\ pc[Reco] = "awaitSub"
    /\ stage = "artists"
    /\ idx = 2
    /\ reply[Reco] = {NetworkError}
    /\ Last(calls[Reco]).seed = artistsArr[2]

CatalogKinds == {"recommendations", "top-tracks", "search", "tracks"}

\* this step is getAppToken failing: on entry, with no usable cached token
\* and a missing credential (ConfigError); or on resuming after the identity
\* request, which was rejected, answered non-2xx or unparsable (UpstreamAuthError)
TokenFails ==
    \/ /\ pc[Reco] = "idle" /\ pc'[Reco] # "idle"
       /\ cachedToken.access_token = NULL \/ cachedToken.expires_at <= now + 30
       /\ env.SPOTIFY_CLIENT_ID = "" \/ env.SPOTIFY_CLIENT_SECRET = ""
    \/ /\ pc[Reco] = "resumeToken" /\ pc'[Reco] # "resumeToken"
       /\ ~Held.net \/ Held.status \notin 200..299 \/ ~Held.json

\* C10: when getAppToken fails, the request ends at once with a 500 response
\* carrying an error, and no catalog call is issued for it, then or later.
C10_TokenFailureFatal ==
    [][/\ TokenFails =>
             /\ pc'[Reco] = "done"
             /\ response'[Reco] # {}
             /\ Val(response'[Reco]).status = 500
             /\ Val(response'[Reco]).kind = "error"
             /\ Val(response'[Reco]).error # <<>>
             /\ token'[Reco] = {}
       /\ token'[Reco] = {} =>
             \A i \in 1..Len(calls'[Reco]) : calls'[Reco][i].kind \notin CatalogKinds
      ]_vars

\* the identity endpoint rejected the exchange and the request ended with the
\* 500 error response
C10_Witness ==
    /\ pc[Reco] = "done"
    /\ token[Reco] = {}
    /\ reply[Reco] = {HttpReply(400, TRUE, "invalid_client")}
    /\ Val(response[Reco]).error = <<"Error: Spotify token error: ", "invalid_client">>
    /\ Val(response[Reco]).status = 500

---------------------------------------------------------------------------
(* Claims about the responses of the recommendations handler *)

\* the request has ended right after the recommendations call, whose response
\* the handler still holds
EndedAfterPrimary ==
    /\ pc[Reco] = "done"
    /\ stage = "none"
    /\ token[Reco] # {}
    /\ Last(calls[Reco]).kind = "recommendations"

\* the recommendations call returned a status outside 2xx other than 404, 403
OtherStatus == Held.net /\ Held.status \notin (200..299) \cup {404, 403}

\* number of requests of one kind in a log
RECURSIVE CountKind(_, _)
CountKind(log, k) ==
    IF log = <<>> THEN 0
    ELSE (IF Head(log).kind = k THEN 1 ELSE 0) + CountKind(Tail(log), k)

\* status, URL and single attempt of the UPSTREAM_ERROR exit
UpstreamErrorExit ==
    LET resp == Val(response[Reco])
        primary == Last(calls[Reco])
    IN  /\ response[Reco] # {}
        /\ resp.kind = "upstreamError"
        /\ resp.status = Held.status
        /\ resp.url = {[kind |-> "recommendations", seed |-> <<>>, limit |-> limit,
                        market |-> market,
                        seeds |-> [artists |-> artistsArr, tracks |-> tracksArr,
                                   genres |-> genresArr]]}
        /\ primary.limit = limit /\ primary.market = market
        /\ CountKind(calls[Reco], "recommendations") = 1

\* C11 as stated: after a non-2xx status other than 404 and 403 the response
\* carries the upstream status, the upstream body (the parsed JSON if the body
\* parses, else the raw text) and the request URL, and the call is not retried.
C11_Original ==
    (EndedAfterPrimary /\ OtherStatus) =>
        /\ UpstreamErrorExit
        /\ Val(response[Reco]).upstream =
               IF Held.json THEN [form |-> "json", of |-> Held.text]
               ELSE [form |-> "text", of |-> Held.text]

\* C11 amended: as above, the body being carried as the parsed JSON if it is
\* not empty and parses to a value other than null, else as the raw text if
\* that is not empty, else as the placeholder text "(empty body)".
C11_UpstreamError ==
    (EndedAfterPrimary /\ OtherStatus) =>
        /\ UpstreamErrorExit
        /\ Val(response[Reco]).upstream =
               IF Held.text = "" THEN [form |-> "text", of |-> "(empty body)"]
               ELSE IF Held.json /\ Held.text # "null"
               THEN [form |-> "json", of |-> Held.text]
               ELSE [form |-> "text", of |-> Held.text]

\* a 401 with an empty body has been answered with 401 and the placeholder
C11_Witness ==
    /\ EndedAfterPrimary
    /\ reply[Reco] = {HttpReply(401, FALSE, "")}
    /\ Val(response[Reco]).status = 401
    /\ Val(response[Reco]).upstream = [form |-> "text", of |-> "(empty body)"]
    /\ Len(artistsArr) = 2

\* C12 as stated: every response has status 200 with a tracks body, or a 5xx
\* status with an error payload.
C12_Original ==
    response[Reco] # {} =>
        LET resp == Val(response[Reco])
        IN  \/ resp.status = 200 /\ resp.kind \in {"upstream", "tracks"}
            \/ resp.status \in 500..599 /\ resp.error # <<>>

\* C12 amended: every response has status 200 with the upstream body or the
\* fallback tracks, or status 500 with the error payload of the handler's
\* catch, or, in the UPSTREAM_ERROR exit, the status the upstream returned (a
\* non-2xx other than 404 and 403, 4xx included) with the error payload.
C12_StatusClasses ==
    response[Reco] # {} =>
        LET resp == Val(response[Reco])
        IN  \/ resp.status = 200 /\ resp.kind \in {"upstream", "tracks"}
            \/ resp.status = 500 /\ resp.kind = "error" /\ resp.error # <<>>
            \/ /\ resp.kind = "upstreamError"
               /\ resp.error = <<"Upstream Spotify error">>
               /\ EndedAfterPrimary /\ OtherStatus
               /\ resp.status = Held.status

\* a 401 of the recommendations call with a JSON body has been passed on as 401
C12_Witness ==
    /\ pc[Reco] = "done"
    /\ reply[Reco] = {HttpReply(401, TRUE, "body")}
    /\ Val(response[Reco]).status = 401
    /\ Val(response[Reco]).kind = "upstreamError"
    /\ Val(response[Reco]).upstream = [form |-> "json", of |-> "body"]

---------------------------------------------------------------------------
(* Claims about getAppToken under concurrent requests *)

CredentialAbsent == env.SPOTIFY_CLIENT_ID = "" \/ env.SPOTIFY_CLIENT_SECRET = ""

\* C13: a getAppToken call that needs a refresh while the client id or the
\* client secret is absent fails with the configuration error and has issued
\* no request at all.
C13_ConfigBeforeNetwork ==
    \A p \in Procs :
        (snap[p] # {} /\ ~SnapUsable(Val(snap[p])) /\ CredentialAbsent) =>
            /\ calls[p] = <<>>
            /\ token[p] = {}
            /\ pc[p] = "done"
            /\ response[p] # {}
            /\ Val(response[p]).status = 500
            /\ Val(response[p]).error =
                   <<"Error: Missing SPOTIFY_CLIENT_ID or SPOTIFY_CLIENT_SECRET">>

\* with the client id set and the secret missing, two concurrent requests
\* have both ended on the configuration error
C13_Witness ==
    /\ env.SPOTIFY_CLIENT_ID = "client-id"
    /\ env.SPOTIFY_CLIENT_SECRET = ""
    /\ now > 0
    /\ \A p \in Forwarders :
          /\ pc[p] = "done"
          /\ snap[p] # {}
          /\ calls[p] = <<>>
          /\ Val(response[p]).status = 500

\* the getAppToken calls that resume after their identity request in this step
Refreshing == {p \in Procs : pc[p] = "resumeToken" /\ pc'[p] # "resumeToken"}

\* the identity endpoint answered with a token
Granted(r) == r.net /\ r.status \in 200..299 /\ r.json

\* the lifetimes the identity endpoint grants with each token
Lifetime(tok) == IF tok = "tokA" THEN 60 ELSE 20

\* the empty value, or a token with the expiry of its own response, written at
\* some time up to now
WholeCredential(c) ==
    \/ c = [access_token |-> NULL, expires_at |-> 0]
    \/ /\ c.access_token \in {"tokA", "tokB"}
       /\ c.expires_at - Lifetime(c.access_token) \in 0..now

\* C14: under every interleaving of getAppToken calls the cache holds the
\* empty value or the token and expiry of one identity response; it changes
\* only when a refresh completes successfully, which writes both fields from
\* that response, so the cache is that of the last refresh to complete.
C14_CacheWhole ==
    [][/\ WholeCredential(cachedToken')
       /\ \A p \in Refreshing :
             IF Granted(Val(reply[p]))
             THEN cachedToken' =
                      [access_token |-> Val(reply[p]).access_token,
                       expires_at |-> now + Val(reply[p]).expires_in]
             ELSE cachedToken' = cachedToken
       /\ Refreshing = {} => cachedToken' = cachedToken
      ]_vars

\* two requests found the cache empty and refreshed at once; the one granted
\* tokA completed first, the one granted tokB later, and the cache holds tokB
\* with the expiry of its response
C14_Witness ==
    \E p, q \in Forwarders :
        /\ p # q
        /\ snap[p] # {} /\ Val(snap[p]).cache.access_token = NULL
        /\ snap[q] # {} /\ Val(snap[q]).cache.access_token = NULL
        /\ IdentityRequests(calls[p]) = 1 /\ IdentityRequests(calls[q]) = 1
        /\ token[p] = {"tokA"} /\ token[q] = {"tokB"}
        /\ cachedToken = [access_token |-> "tokB", expires_at |-> now + 20]
        /\ now > 0

---------------------------------------------------------------------------
(* Claims about what the responses disclose *)

Range(l) == {l[i] : i \in 1..Len(l)}

\* the texts a list of seed entries is made of
SeedTexts(l) == UNION {Range(l[i]) : i \in 1..Len(l)}

\* the texts a URL is made of
UrlTexts(u) ==
    Range(u.seed) \cup Range(u.market) \cup SeedTexts(u.seeds.artists)
    \cup SeedTexts(u.seeds.tracks) \cup SeedTexts(u.seeds.genres)

\* every text a response is made of: error message, upstream body, URL and
\* track ids
ResponseTexts(resp) ==
    Range(resp.error) \cup {resp.upstream.of}
    \cup UNION {UrlTexts(u) : u \in resp.url}
    \cup {resp.tracks[i].id : i \in 1..Len(resp.tracks)}

\* the client secret, the credentials of every Authorization header sent
\* (Basic and Bearer) and the tokens held by the handlers and the cache
Secrets ==
    ({env.SPOTIFY_CLIENT_SECRET, cachedToken.access_token}
     \cup UNION {token[p] : p \in Procs}
     \cup UNION {{calls[p][i].token : i \in 1..Len(calls[p])} : p \in Procs})
    \ {"", NULL}

\* C15: no response contains the client secret, the Basic credentials derived
\* from it or a bearer token, in any of its parts (error message, upstream
\* payload, URL, tracks); what the client sees is built from the request and
\* the upstream bodies alone.
C15_NoSecretInResponse ==
    \A p \in Procs :
        response[p] # {} => ResponseTexts(Val(response[p])) \cap Secrets = {}

\* after a refresh with the Basic credentials, the recommendations call made
\* with the new bearer token failed with 401 and the response carrying its
\* URL has been sent
C15_Witness ==
    /\ pc[Reco] = "done"
    /\ env.SPOTIFY_CLIENT_SECRET = "client-secret"
    /\ Len(calls[Reco]) = 2
    /\ calls[Reco][1].token = "Y2xpZW50LWlkOmNsaWVudC1zZWNyZXQ="
    /\ calls[Reco][2].token = "tokB"
    /\ token[Reco] = {"tokB"}
    /\ Val(response[Reco]).kind = "upstreamError"
    /\ Val(response[Reco]).url # {}
    /\ Secrets = {"client-secret", "Y2xpZW50LWlkOmNsaWVudC1zZWNyZXQ=", "tokB"}

---------------------------------------------------------------------------
(* Claims about the order and number of upstream calls *)

\* the seeds of the calls of one kind in a log, in the order of the calls
RECURSIVE SeedsCalled(_, _)
SeedsCalled(log, k) ==
    IF log = <<>> THEN <<>>
    ELSE (IF Head(log).kind = k THEN <<Head(log).seed>> ELSE <<>>)
         \o SeedsCalled(Tail(log), k)

\* position of a call kind in the order of a request
Rank(k) ==
    CASE k = "identity" -> 0
      [] k = "recommendations" -> 1
      [] k = "top-tracks" -> 2
      [] k = "search" -> 3
      [] k = "tracks" -> 4

---------------------------------------------------------------------------
(* The limit as a clamp *)

\* the integer a limit parameter made of a sign and digits denotes
Denoted(li) == IF li.neg THEN 0 - Val(li.num) ELSE Val(li.num)

\* C17: the limit is the clamp of the parsed integer: every integer input
\* below 1, zero and negatives included, resolves to 1, every input above 100
\* to 100, every integer input in [1, 100] to itself, and only an absent or
\* non-numeric input to 20.
C17_Clamp ==
    (Shaped /\ sent.limit.rest = <<>>) =>
        IF ~sent.limit.given \/ sent.limit.num = {}
        THEN limit = 20
        ELSE LET v == Denoted(sent.limit)
             IN  limit = IF v < 1 THEN 1 ELSE IF v > 100 THEN 100 ELSE v

---------------------------------------------------------------------------
(* No retries *)

\* C18: a request issues at most one identity request, at most one
\* recommendations call and at most one sub-call for each seed of the
\* normalized seed set, hence at most seven upstream calls.
C18_NoRetry ==
    LET log == calls[Reco]
    IN  /\ \A p \in Procs : CountKind(calls[p], "identity") <= 1
        /\ CountKind(log, "recommendations") <= 1
        /\ CountKind(log, "top-tracks") <= Len(artistsArr)
        /\ CountKind(log, "search") <= Len(genresArr)
        /\ CountKind(log, "tracks") <= Len(tracksArr)
        /\ \A i, j \in 1..Len(log) :
              (i # j /\ log[i].kind \in SubKinds /\ log[i].kind = log[j].kind)
                  => log[i].seed # log[j].seed
        /\ Len(artistsArr) + Len(tracksArr) + Len(genresArr) <= 5
        /\ Len(log) <= 7

\* seven calls have been issued, the five sub-calls all without result, and
\* the request has ended
C18_Witness ==
    /\ pc[Reco] = "done"
    /\ Len(calls[Reco]) = 7
    /\ calls[Reco][1].kind = "identity"
    /\ calls[Reco][2].kind = "recommendations"
    /\ Len(artistsArr) = 3 /\ Len(genresArr) = 1 /\ Len(tracksArr) = 1
    /\ collected = <<>>
    /\ Val(response[Reco]).tracks = <<>>
    /\ ~Held.net

---------------------------------------------------------------------------
(* The fallback of a request without seeds *)

NoSeedSent == Len(sent.artists) + Len(sent.tracks) + Len(sent.genres) = 0

\* C19: when a request without seeds falls back, no top-tracks call and no
\* track lookup is issued; the genre searches go over pop, rock, hip-hop in
\* that order, each asking for min(50, limit) results, and all three are made
\* unless `limit` tracks have been collected before.
C19_DefaultGenreFallback ==
    (NoSeedSent /\ stage # "none") =>
        LET log == calls[Reco]
            g == SeedsCalled(log, "search")
            defaults == << <<"pop">>, <<"rock">>, <<"hip-hop">> >>
        IN  /\ CountKind(log, "top-tracks") = 0
            /\ CountKind(log, "tracks") = 0
            /\ Len(g) \in 1..3
            /\ g = [i \in 1..Len(g) |-> defaults[i]]
            /\ \A i \in 1..Len(log) :
                  log[i].kind = "search" =>
                      log[i].limit = IF limit > 50 THEN 50 ELSE limit
            /\ (pc[Reco] = "done" /\ Len(g) < 3) => Len(collected) >= limit

\* no seeds and limit 60: after a 404 the three default genres have been
\* searched with 50 results asked for each
C19_Witness ==
    /\ pc[Reco] = "done"
    /\ NoSeedSent
    /\ limit = 60
    /\ Len(calls[Reco]) >= 4
    /\ LET n == Len(calls[Reco])
       IN  /\ calls[Reco][n - 3].kind = "recommendations"
           /\ calls[Reco][n - 2].seed = <<"pop">> /\ calls[Reco][n - 2].limit = 50
           /\ calls[Reco][n - 1].seed = <<"rock">> /\ calls[Reco][n - 1].limit = 50
           /\ calls[Reco][n].seed = <<"hip-hop">> /\ calls[Reco][n].limit = 50
    /\ Len(collected) = 2

---------------------------------------------------------------------------
(* The state machine of a recommendations request *)

\* the state of the machine a handler position and its response stand for
MachineState(at, resp) ==
    CASE at \in {"idle", "awaitToken", "resumeToken"} -> "START"
      [] at \in {"awaitPrimary", "resumePrimary"} -> "PRIMARY_ATTEMPT"
      [] at \in {"awaitSub", "resumeSub"} -> "FALLBACK_DISPATCH"
      [] at = "done" ->
            IF resp = {} THEN "SILENT"
            ELSE CASE Val(resp).kind = "upstream" -> "SUCCESS"
                   [] Val(resp).kind = "tracks" -> "FALLBACK_MERGE_SUCCESS"
                   [] Val(resp).kind = "upstreamError" -> "UPSTREAM_ERROR"
                   [] Val(resp).kind = "error" -> "FATAL"

Terminal == {"SUCCESS", "FALLBACK_MERGE_SUCCESS", "UPSTREAM_ERROR", "FATAL"}

MachineEdges ==
    {<<"START", "PRIMARY_ATTEMPT">>, <<"START", "FATAL">>,
     <<"PRIMARY_ATTEMPT", "SUCCESS">>, <<"PRIMARY_ATTEMPT", "FALLBACK_DISPATCH">>,
     <<"PRIMARY_ATTEMPT", "UPSTREAM_ERROR">>, <<"PRIMARY_ATTEMPT", "FATAL">>,
     <<"FALLBACK_DISPATCH", "FALLBACK_MERGE_SUCCESS">>}

\* C20: a request moves along START -> PRIMARY_ATTEMPT -> SUCCESS, or
\* FALLBACK_DISPATCH -> FALLBACK_MERGE -> SUCCESS, or UPSTREAM_ERROR, or the
\* fatal 500 exit; the response is sent on entering the terminal state and
\* never again, no call is issued after it, and, every upstream call
\* returning or failing, a started request reaches a terminal state.
C20_StateMachine ==
    /\ [][LET m == MachineState(pc[Reco], response[Reco])
              n == MachineState(pc'[Reco], response'[Reco])
          IN  /\ m = n \/ <<m, n>> \in MachineEdges
              /\ n \in Terminal <=> response'[Reco] # {}
              /\ m \in Terminal =>
                    /\ response'[Reco] = response[Reco]
                    /\ calls'[Reco] = calls[Reco]
                    /\ pc'[Reco] = "done"
         ]_vars
    /\ (pc[Reco] # "idle") ~> (pc[Reco] = "done" /\ response[Reco] # {})

\* the request went through a token refresh, the recommendations call, the
\* fallback over two artists and a track, and ended with the merge
C20_Witness ==
    /\ pc[Reco] = "done"
    /\ stage = "merge"
    /\ MachineState(pc[Reco], response[Reco]) = "FALLBACK_MERGE_SUCCESS"
    /\ [i \in 1..Len(calls[Reco]) |-> calls[Reco][i].kind] =
           <<"identity", "recommendations", "top-tracks", "top-tracks", "tracks">>
    /\ Len(Val(response[Reco]).tracks) = 2

---------------------------------------------------------------------------
(* Failed getAppToken calls and the cache *)

\* the getAppToken calls that fail on entry in this step: a refresh is needed
\* and a credential is absent
FailingOnEntry ==
    {p \in Procs : /\ pc[p] = "idle" /\ pc'[p] # "idle"
                   /\ cachedToken.access_token = NULL
                      \/ cachedToken.expires_at <= now + 30
                   /\ CredentialAbsent}

\* the identity endpoint answered with a status outside 2xx
Refused(r) == r.net /\ r.status \notin 200..299

\* C21: a getAppToken call that fails, on the configuration error or on a
\* refresh the identity endpoint refuses (or that fails otherwise), leaves the
\* cache exactly as it was, and ends the request with an error; after a
\* non-success status the error carries the raw response body.
C21_FailureKeepsCache ==
    [][/\ \A p \in Refreshing :
             ~Granted(Val(reply[p])) =>
                 /\ cachedToken' = cachedToken
                 /\ pc'[p] = "done"
                 /\ token'[p] = {}
                 /\ response'[p] # {}
                 /\ Val(response'[p]).status = 500
                 /\ Refused(Val(reply[p])) =>
                       Val(response'[p]).error =
                           <<"Error: Spotify token error: ", Val(reply[p]).text>>
       /\ \A p \in FailingOnEntry :
             /\ cachedToken' = cachedToken
             /\ pc'[p] = "done"
             /\ token'[p] = {}
      ]_vars

\* the cache held tokA within 30 s of its expiry; a refresh was refused with
\* 400 and the cache still holds tokA with its expiry, as the call found it
C21_Witness ==
    \E p \in Forwarders :
        /\ pc[p] = "done"
        /\ reply[p] = {HttpReply(400, TRUE, "invalid_client")}
        /\ Val(response[p]).error = <<"Error: Spotify token error: ", "invalid_client">>
        /\ cachedToken = [access_token |-> "tokA", expires_at |-> 60]
        /\ snap[p] # {} /\ Val(snap[p]).cache = cachedToken
        /\ now > 30

---------------------------------------------------------------------------
(* A recommendations request beside a forwarded request, as time passes *)

TheForwarder == "fwd1"

MixedRequests ==
    {Request({<<Slot("A1", FALSE)>>}, {<<Slot("K1", FALSE)>>}, {}, Plain(1), {})}

InitMixed ==
    /\ now = 0
    /\ cachedToken = EmptyCache
    /\ env \in {e \in EnvChoices : CredentialsSet(e)}
    /\ \E rq \in MixedRequests : query = rq.query /\ sent = rq.sent
    /\ InitProcs
    /\ InitReco

\* a forwarded request arrives while the recommendations request is in progress
ArrivesMeanwhile ==
    /\ pc[Reco] \notin {"idle", "done"}
    /\ ForwardStart(TheForwarder)

NextMixed ==
    \/ Tick
    \/ RecoStart
    \/ IdentityResponds(Reco)
    \/ TokenSettled(Reco)
    \/ PrimaryResponds
    \/ PrimarySettled
    \/ SubResponds
    \/ SubSettled
    \/ ArrivesMeanwhile
    \/ IdentityResponds(TheForwarder)
    \/ TokenSettled(TheForwarder)
    \/ ForwardResponds(TheForwarder)
    \/ ForwardSettled(TheForwarder)
    \/ ForwardReturn(TheForwarder)

SpecMixed == InitMixed /\ [][NextMixed]_vars

---------------------------------------------------------------------------
(* The token of a recommendations request *)

\* this step issues a catalog call of the recommendations request
IssuesCatalogCall ==
    /\ Len(calls'[Reco]) > Len(calls[Reco])
    /\ Last(calls'[Reco]).kind \in CatalogKinds

\* C22: a recommendations request obtains its token once, before the primary
\* call (by at most one identity request, which comes first); the token never
\* changes afterwards and every catalog call carries it, whatever the cache
\* holds and whatever the time when the call is issued.
C22_OneTokenPerRequest ==
    [][/\ token[Reco] # {} => token'[Reco] = token[Reco]
       /\ IssuesCatalogCall =>
             /\ token'[Reco] # {}
             /\ Last(calls'[Reco]).token = Val(token'[Reco])
       /\ \A i \in 1..Len(calls'[Reco]) :
             /\ calls'[Reco][i].kind = "identity" => i = 1
             /\ calls'[Reco][i].kind \in CatalogKinds =>
                   calls'[Reco][i].token = calls'[Reco][Len(calls'[Reco])].token
      ]_vars

\* the request got tokA; 30 s before its expiry a forwarded request found it
\* unusable and put tokB in the cache; the request's top-tracks and track calls
\* carry tokA like its primary call
C22_Witness ==
    /\ pc[Reco] = "awaitSub"
    /\ stage = "tracks"
    /\ token[Reco] = {"tokA"}
    /\ [i \in 1..Len(calls[Reco]) |-> calls[Reco][i].token] =
           <<"Y2xpZW50LWlkOmNsaWVudC1zZWNyZXQ=", "tokA", "tokA", "tokA">>
    /\ cachedToken.access_token = "tokB"
    /\ snap[TheForwarder] # {}
    /\ Val(snap[TheForwarder]).cache = [access_token |-> "tokA", expires_at |-> 60]
    /\ token[TheForwarder] = {"tokB"}
    /\ now >= 30

---------------------------------------------------------------------------
(* The market of a recommendations request *)

\* the market of the request: the value supplied, "US" when none or "" is
ResolvedOnce ==
    IF query.market = {} \/ Val(query.market) = <<>> THEN <<"US">>
    ELSE Val(query.market)

MarketKinds == {"recommendations", "top-tracks", "search"}

\* the calls of the request that name a market
MarketCalls ==
    {i \in 1..Len(calls[Reco]) : calls[Reco][i].kind \in MarketKinds}

\* C23: the market is resolved once per request, to the supplied value or to
\* "US" when the parameter is absent or empty, and the primary call and every
\* top-tracks and search call of the fallback carry that same market.
C23_MarketOnce ==
    \A i \in MarketCalls : calls[Reco][i].market = ResolvedOnce

\* a market value free of the characters that end a value in a URL
PlainMarket == \A i \in 1..Len(ResolvedOnce) : ResolvedOnce[i] \notin {"&", "#", "+", "%"}

\* what holds of the code: the primary call always carries the resolved
\* market, the fallback calls carry it when it is plain
MarketOnceWhenPlain ==
    \A i \in MarketCalls :
        calls[Reco][i].kind = "recommendations" \/ PlainMarket =>
            calls[Reco][i].market = ResolvedOnce

\* "US" sent for an empty market parameter on the primary, top-tracks and
\* search calls
DefaultMarketSent ==
    /\ query.market = {<<>>}
    /\ [i \in 1..Len(calls[Reco]) |-> <<calls[Reco][i].kind, calls[Reco][i].market>>] =
          << <<"identity", <<>> >>, <<"recommendations", <<"US">> >>,
             <<"top-tracks", <<"US">> >>, <<"search", <<"US">> >> >>

=============================================================================
